---- MODULE Spec2Model ----
(***************************************************************************)
(* The persistent data model of the restaurant ordering system            *)
(* (API/resources/models.py): Category, MenuItem, Order, OrderItem and    *)
(* Cart rows, the foreign-key delete policies and unique_together         *)
(* constraints declared on them, the soft-delete behaviour inherited from *)
(* softdelete.models.SoftDeleteObject, and the two Cart methods           *)
(* reset_cart and checkout.                                               *)
(*                                                                         *)
(* A table is the set of its stored rows.  Money is counted in whole      *)
(* units.  Columns that no operation of models.py reads or compares       *)
(* (titles, slug, featured, status, date, delivery_crew) are left out of  *)
(* the rows.  MenuItem and Order rows carry their primary key because     *)
(* other rows reference it; OrderItem and Cart rows are identified by     *)
(* their unique_together key.                                              *)
(***************************************************************************)
EXTENDS Integers, FiniteSets, Sequences, TLC

MaxUsers == 2
MaxCategories == 2
MaxMenuItems == 2
MaxOrders == 1
MaxOrderItems == 1
MaxCarts == 2
MaxQty == 2
MaxPrice == 2

Users == 1..MaxUsers
CategoryIds == 1..MaxCategories
MenuItemIds == 1..MaxMenuItems
OrderIds == 1..MaxOrders
Quantities == 1..MaxQty
Prices == 1..MaxPrice

VARIABLES
    categories,   \* pks of the stored Category rows
    menuitems,    \* stored MenuItem rows
    orders,       \* stored Order rows
    orderitems,   \* stored OrderItem rows
    carts,        \* stored Cart rows
    call,         \* the last operation called, with its arguments
    raised,       \* the exception that call propagated to its caller
    log,          \* the levels of the log entries that call emitted
    result        \* the rows that call returned

vars == <<categories, menuitems, orders, orderitems, carts,
          call, raised, log, result>>

----------------------------------------------------------------------------
(* The soft-deletable tables as one value, so that delete() is written    *)
(* once for the four models that inherit it.                               *)

SoftDeletable == {"menuitem", "order", "orderitem", "cart"}

DB == [menuitem |-> menuitems, order |-> orders,
       orderitem |-> orderitems, cart |-> carts]

SetDB(db) ==
    /\ menuitems' = db.menuitem
    /\ orders' = db.order
    /\ orderitems' = db.orderitem
    /\ carts' = db.cart

Flagged(r) == [r EXCEPT !.deleted = TRUE]

(* The rows of table t that reference row r of table tbl through a        *)
(* ForeignKey with on_delete=CASCADE.                                      *)
RelatedRows(db, tbl, r, t) ==
    CASE tbl = "menuitem" /\ t \in {"orderitem", "cart"} ->
            {x \in db[t] : x.menuitem = r.id}
      [] tbl = "order" /\ t = "orderitem" ->
            {x \in db[t] : x.order = r.id}
      [] OTHER -> {}

(* Soft delete: the row is flagged, and so are the rows that the default  *)
(* (non-deleted) related managers reach.                                   *)
SoftDeleted(db, tbl, r) ==
    [t \in SoftDeletable |->
        IF t = tbl
        THEN (db[t] \ {r}) \cup {Flagged(r)}
        ELSE LET rel == {x \in RelatedRows(db, tbl, r, t) : ~x.deleted}
             IN  (db[t] \ rel) \cup {Flagged(x) : x \in rel}]

(* Hard delete: the row leaves the table, and on_delete=CASCADE removes   *)
(* every row that references it.                                           *)
HardDeleted(db, tbl, r) ==
    [t \in SoftDeletable |->
        IF t = tbl THEN db[t] \ {r}
        ELSE db[t] \ RelatedRows(db, tbl, r, t)]

(* SoftDeleteObject.delete on the stored row r.  A row that is not yet    *)
(* flagged is flagged; a failing write surfaces to the caller.  A row     *)
(* that is already flagged is removed for good, and whatever fails on     *)
(* that path is swallowed by delete itself.                                *)
SoftDeleteObject_delete(db, tbl, r, fail) ==
    IF r.deleted
    THEN [db |-> IF fail THEN db ELSE HardDeleted(db, tbl, r),
          raised |-> "none"]
    ELSE IF fail
         THEN [db |-> db, raised |-> "DatabaseError"]
         ELSE [db |-> SoftDeleted(db, tbl, r), raised |-> "none"]

(* The managers of a soft-deletable model.                                 *)

(* Faulty variant of objects_all: a default manager without the filter.    *)
objects_all_unfiltered(db, tbl) == db[tbl]

objects_all(db, tbl) == {r \in db[tbl] : ~r.deleted}

all_with_deleted(db, tbl) == db[tbl]

objects_get_pk(db, tbl, r) == {x \in all_with_deleted(db, tbl) : x = r}

----------------------------------------------------------------------------
(* Init: a populated catalogue, no orders and no carts.                    *)

Init ==
    /\ categories = CategoryIds
    /\ menuitems = {[id |-> m, price |-> 1,
                     category |-> 1,
                     deleted |-> FALSE] : m \in MenuItemIds}
    /\ orders = {}
    /\ orderitems = {}
    /\ carts = {}
    /\ call = <<"none">>
    /\ raised = "none"
    /\ log = <<>>
    /\ result = {}

----------------------------------------------------------------------------
(* Category: referenced by MenuItem.category and OrderItem.category, both  *)
(* on_delete=PROTECT.  Category is not soft-deletable.                     *)

ProtectedBy(c) ==
    \/ \E mi \in menuitems : mi.category = c
    \/ \E oi \in orderitems : oi.category = c

(* Faulty variant of CategoryDelete: on_delete=CASCADE in place of PROTECT. *)
CategoryDeleteCascade(c) ==
    /\ c \in categories
    /\ raised' = "none"
    /\ categories' = categories \ {c}
    /\ menuitems' = {mi \in menuitems : mi.category # c}
    /\ orderitems' = {oi \in orderitems :
                         /\ oi.category # c
                         /\ \A mi \in menuitems :
                               mi.id = oi.menuitem => mi.category # c}
    /\ call' = <<"CategoryDelete", c>>
    /\ log' = <<>>
    /\ result' = {}
    /\ UNCHANGED <<orders, carts>>

CategoryDelete(c) ==
    /\ c \in categories
    /\ IF ProtectedBy(c)
       THEN /\ raised' = "ProtectedError"
            /\ UNCHANGED categories
       ELSE /\ raised' = "none"
            /\ categories' = categories \ {c}
    /\ call' = <<"CategoryDelete", c>>
    /\ log' = <<>>
    /\ result' = {}
    /\ UNCHANGED <<menuitems, orders, orderitems, carts>>

(* Faulty variant of MenuItemSetPrice: the new price is also written to    *)
(* the order lines of the menu item.                                        *)
MenuItemSetPriceSync(mi, p) ==
    /\ mi \in menuitems
    /\ p # mi.price
    /\ menuitems' = (menuitems \ {mi}) \cup {[mi EXCEPT !.price = p]}
    /\ orderitems' = {IF oi.menuitem = mi.id
                      THEN [oi EXCEPT !.unit_price = p,
                                      !.price = p * oi.quantity]
                      ELSE oi : oi \in orderitems}
    /\ call' = <<"MenuItemSetPrice", mi.id>>
    /\ raised' = "none"
    /\ log' = <<>>
    /\ result' = {}
    /\ UNCHANGED <<categories, orders, carts>>

(* MenuItem.price is a column of its own; saving it writes menu_items only. *)
MenuItemSetPrice(mi, p) ==
    /\ mi \in menuitems
    /\ p # mi.price
    /\ menuitems' = (menuitems \ {mi}) \cup {[mi EXCEPT !.price = p]}
    /\ call' = <<"MenuItemSetPrice", mi.id>>
    /\ raised' = "none"
    /\ log' = <<>>
    /\ result' = {}
    /\ UNCHANGED <<categories, orders, orderitems, carts>>

OrderCreate(id, u, t) ==
    /\ Cardinality(orders) < MaxOrders
    /\ \A o \in orders : o.id # id
    /\ orders' = orders \cup {[id |-> id, user |-> u, total |-> t,
                               deleted |-> FALSE]}
    /\ call' = <<"OrderCreate", id>>
    /\ raised' = "none"
    /\ log' = <<>>
    /\ result' = {}
    /\ UNCHANGED <<categories, menuitems, orderitems, carts>>

(* OrderItem.Meta.unique_together = ("menuitem", "order"): the constraint  *)
(* is on the table, so it counts every stored row.                          *)
OrderItemUniqueTogether(o, m) ==
    \A oi \in orderitems : ~(oi.order = o /\ oi.menuitem = m)

OrderItemCreate(o, m, q, c, up, p) ==
    /\ \E x \in orders : x.id = o
    /\ \E x \in menuitems : x.id = m
    /\ c \in categories
    /\ IF OrderItemUniqueTogether(o, m)
       THEN /\ Cardinality(orderitems) < MaxOrderItems
            /\ orderitems' = orderitems \cup
                   {[order |-> o, menuitem |-> m, quantity |-> q,
                     category |-> c, unit_price |-> up, price |-> p,
                     deleted |-> FALSE]}
            /\ raised' = "none"
       ELSE /\ raised' = "IntegrityError"
            /\ UNCHANGED orderitems
    /\ call' = <<"OrderItemCreate", o, m>>
    /\ log' = <<>>
    /\ result' = {}
    /\ UNCHANGED <<categories, menuitems, orders, carts>>

----------------------------------------------------------------------------
(* Cart.                                                                    *)

(* Faulty variants of CartUniqueTogether: no constraint at all, and a      *)
(* constraint that only counts the rows not flagged deleted.                *)
CartUniqueTogetherOff(u, m) == TRUE

CartUniqueTogetherActiveOnly(u, m) ==
    \A r \in carts : ~(r.user = u /\ r.menuitem = m /\ ~r.deleted)

(* Cart.Meta.unique_together = ("menuitem", "user"): the constraint is on  *)
(* the table, so it counts every stored row, flagged or not.                *)
CartUniqueTogether(u, m) ==
    \A r \in carts : ~(r.user = u /\ r.menuitem = m)

(* quantity, unit_price and price are three columns; the caller supplies   *)
(* each of them.                                                            *)
CartCreate(u, m, q, up, p) ==
    /\ \E x \in menuitems : x.id = m
    /\ IF CartUniqueTogether(u, m)
       THEN /\ Cardinality(carts) < MaxCarts
            /\ carts' = carts \cup
                   {[user |-> u, menuitem |-> m, quantity |-> q,
                     unit_price |-> up, price |-> p, deleted |-> FALSE]}
            /\ raised' = "none"
       ELSE /\ raised' = "IntegrityError"
            /\ UNCHANGED carts
    /\ call' = <<"CartCreate", u, m>>
    /\ log' = <<>>
    /\ result' = {}
    /\ UNCHANGED <<categories, menuitems, orders, orderitems>>

CartSetQuantity(r, q) ==
    /\ r \in carts
    /\ q # r.quantity
    /\ carts' = (carts \ {r}) \cup {[r EXCEPT !.quantity = q]}
    /\ call' = <<"CartSetQuantity", r.user, r.menuitem>>
    /\ raised' = "none"
    /\ log' = <<>>
    /\ result' = {}
    /\ UNCHANGED <<categories, menuitems, orders, orderitems>>

CartSetUnitPrice(r, up) ==
    /\ r \in carts
    /\ up # r.unit_price
    /\ carts' = (carts \ {r}) \cup {[r EXCEPT !.unit_price = up]}
    /\ call' = <<"CartSetUnitPrice", r.user, r.menuitem>>
    /\ raised' = "none"
    /\ log' = <<>>
    /\ result' = {}
    /\ UNCHANGED <<categories, menuitems, orders, orderitems>>

(* Faulty variant of reset_cart: self.delete() outside any try.            *)
reset_cart_unguarded(r, fail) ==
    /\ r \in carts
    /\ LET out == SoftDeleteObject_delete(DB, "cart", r, fail) IN
         /\ SetDB(out.db)
         /\ call' = <<"reset_cart", r, out.raised>>
         /\ raised' = out.raised
    /\ log' = <<"WARNING">>
    /\ result' = {}
    /\ UNCHANGED categories

(* Cart.reset_cart: a warning, then self.delete() inside try; an exception *)
(* is caught, logged at error level, and not raised again.                  *)
reset_cart(r, fail) ==
    /\ r \in carts
    /\ LET out == SoftDeleteObject_delete(DB, "cart", r, fail) IN
         /\ SetDB(out.db)
         /\ call' = <<"reset_cart", r, out.raised>>
         /\ log' = IF out.raised = "none"
                   THEN <<"WARNING">>
                   ELSE <<"WARNING", "ERROR">>
    /\ raised' = "none"
    /\ result' = {}
    /\ UNCHANGED categories

(* Cart.checkout on a Cart instance of user u.                              *)
checkout(u) ==
    /\ call' = <<"checkout", u>>
    /\ raised' = "NotImplementedError"
    /\ log' = <<>>
    /\ result' = {}
    /\ UNCHANGED <<categories, menuitems, orders, orderitems, carts>>

----------------------------------------------------------------------------
(* Operations every soft-deletable model inherits.                          *)

delete(tbl, r, fail) ==
    /\ r \in DB[tbl]
    /\ LET out == SoftDeleteObject_delete(DB, tbl, r, fail) IN
         /\ SetDB(out.db)
         /\ raised' = out.raised
    /\ call' = <<"delete", tbl, r>>
    /\ log' = <<>>
    /\ result' = {}
    /\ UNCHANGED categories

Retrieve(name, tbl, rows) ==
    /\ call' = <<name, tbl>>
    /\ result' = rows
    /\ raised' = "none"
    /\ log' = <<>>
    /\ UNCHANGED <<categories, menuitems, orders, orderitems, carts>>

List(tbl) == Retrieve("all", tbl, objects_all(DB, tbl))

ListWithDeleted(tbl) ==
    Retrieve("all_with_deleted", tbl, all_with_deleted(DB, tbl))

GetByPk(tbl, r) ==
    /\ r \in DB[tbl]
    /\ Retrieve("get_pk", tbl, objects_get_pk(DB, tbl, r))

----------------------------------------------------------------------------
(* The catalogue: categories and menu items.                                *)

NextCatalog ==
    \/ \E c \in CategoryIds : CategoryDelete(c)
    \/ \E mi \in menuitems, p \in Prices : MenuItemSetPrice(mi, p)
    \/ \E mi \in menuitems, fail \in BOOLEAN : delete("menuitem", mi, fail)
    \/ List("menuitem")
    \/ ListWithDeleted("menuitem")
    \/ \E mi \in menuitems : GetByPk("menuitem", mi)

SpecCatalog == Init /\ [][NextCatalog]_vars

(* Orders and their lines, over the catalogue.                              *)

OrderTables == {"order", "orderitem"}

NextOrders ==
    \/ \E c \in CategoryIds : CategoryDelete(c)
    \/ \E mi \in menuitems, p \in Prices : MenuItemSetPrice(mi, p)
    \/ \E id \in OrderIds, u \in Users, t \in Prices : OrderCreate(id, u, t)
    \/ \E o \in OrderIds, m \in MenuItemIds, q \in Quantities,
          c \in CategoryIds, up \in Prices, p \in Prices :
            OrderItemCreate(o, m, q, c, up, p)
    \/ \E tbl \in OrderTables, fail \in BOOLEAN :
          \E r \in DB[tbl] : delete(tbl, r, fail)

SpecOrders == Init /\ [][NextOrders]_vars

(* The cart table.                                                          *)

NextCart ==
    \/ \E u \in Users, m \in MenuItemIds, q \in Quantities,
          up \in Prices, p \in Prices : CartCreate(u, m, q, up, p)
    \/ \E r \in carts, q \in Quantities : CartSetQuantity(r, q)
    \/ \E r \in carts, up \in Prices : CartSetUnitPrice(r, up)
    \/ \E r \in carts, fail \in BOOLEAN : reset_cart(r, fail)
    \/ \E u \in Users : checkout(u)
    \/ \E r \in carts, fail \in BOOLEAN : delete("cart", r, fail)
    \/ List("cart")
    \/ ListWithDeleted("cart")
    \/ \E r \in carts : GetByPk("cart", r)

SpecCart == Init /\ [][NextCart]_vars

Next == NextCatalog \/ NextOrders \/ NextCart

Spec == Init /\ [][Next]_vars

----------------------------------------------------------------------------
(* Properties.                                                              *)

(* The key that identifies a stored row of table tbl.                       *)
RowKey(tbl, r) ==
    CASE tbl \in {"menuitem", "order"} -> <<r.id>>
      [] tbl = "orderitem" -> <<r.order, r.menuitem>>
      [] tbl = "cart" -> <<r.user, r.menuitem>>

(* The soft-deletable tables after the step.                               *)
DBAfter == [menuitem |-> menuitems', order |-> orders',
            orderitem |-> orderitems', cart |-> carts']

ActiveCartsOf(cs, u) == {r \in cs : r.user = u /\ ~r.deleted}

OrdersOf(os, u) == {o \in os : o.user = u}

(* C1: delete() on a record of a soft-deletable entity keeps the stored    *)
(* record and flags it; delete() on an already flagged record does not     *)
(* raise and leaves the record stored and flagged.                          *)
C1_DeleteKeepsAndFlags ==
    [][call'[1] = "delete" =>
         LET tbl == call'[2]
             r == call'[3]
         IN  /\ r.deleted => raised' = "none"
             /\ raised' = "none" =>
                  \E x \in DBAfter[tbl] :
                      RowKey(tbl, x) = RowKey(tbl, r) /\ x.deleted]_vars

(* C2: every stored Cart row has price = unit_price * quantity.             *)
C2_CartPriceIsProduct ==
    \A r \in carts : r.price = r.unit_price * r.quantity

C4_EmptyCartCheckout ==
    [][(call'[1] = "checkout" /\ ActiveCartsOf(carts, call'[2]) = {}) =>
         /\ raised' = "EmptyCartError"
         /\ UNCHANGED <<orders, orderitems, carts>>]_vars

(* C5: checkout for a user with at least one active Cart row, all on       *)
(* stored, non-deleted menu items, creates exactly one Order of that user  *)
(* and leaves the user without active Cart rows.                            *)
C5_CheckoutCreatesOrder ==
    [][(/\ call'[1] = "checkout"
        /\ ActiveCartsOf(carts, call'[2]) # {}
        /\ \A r \in ActiveCartsOf(carts, call'[2]) :
              \E mi \in menuitems : mi.id = r.menuitem /\ ~mi.deleted) =>
         /\ Cardinality(OrdersOf(orders', call'[2])) =
                Cardinality(OrdersOf(orders, call'[2])) + 1
         /\ ActiveCartsOf(carts', call'[2]) = {}]_vars

(* C6: deleting a Category that a stored MenuItem references raises the    *)
(* protection error and leaves the Category and the menu items stored.      *)
C6_ProtectedCategory ==
    [][(/\ call'[1] = "CategoryDelete"
        /\ call'[2] \in categories
        /\ \E mi \in menuitems : mi.category = call'[2]) =>
         /\ raised' = "ProtectedError"
         /\ call'[2] \in categories'
         /\ menuitems' = menuitems]_vars

C6_Witness ==
    /\ call[1] = "CategoryDelete"
    /\ raised = "ProtectedError"
    /\ call[2] \in categories
    /\ \E mi \in menuitems : mi.category = call[2]

(* C7: a (user, menuitem) pair never has two active Cart rows, and         *)
(* creating a Cart row for a pair that has an active row is rejected.       *)
CartAtMostOneActive ==
    \A r1, r2 \in carts :
        (r1.user = r2.user /\ r1.menuitem = r2.menuitem
         /\ ~r1.deleted /\ ~r2.deleted) => r1 = r2

C7_CartUniquePerPair ==
    /\ []CartAtMostOneActive
    /\ [][(/\ call'[1] = "CartCreate"
           /\ \E r \in carts : /\ r.user = call'[2]
                               /\ r.menuitem = call'[3]
                               /\ ~r.deleted) =>
            /\ raised' = "IntegrityError"
            /\ carts' = carts]_vars

C7_Witness ==
    /\ call[1] = "CartCreate"
    /\ raised = "IntegrityError"
    /\ \E r \in carts :
          r.user = call[2] /\ r.menuitem = call[3] /\ ~r.deleted

(* C8 as stated: neither the default list nor the default get returns a    *)
(* record flagged deleted.                                                  *)
C8_DefaultRetrievalHidesDeleted ==
    call[1] \in {"all", "get_pk"} => \A r \in result : ~r.deleted

(* C8 as amended: the default list never returns a record flagged deleted; *)
(* a flagged record is returned only by all_with_deleted or by a lookup    *)
(* by primary key.                                                          *)
C8_ListHidesDeleted ==
    /\ call[1] = "all" => \A r \in result : ~r.deleted
    /\ (\E r \in result : r.deleted) =>
           call[1] \in {"all_with_deleted", "get_pk"}

C8_Witness ==
    /\ call[1] = "all"
    /\ result # {}
    /\ \E r \in DB[call[2]] : r.deleted

(* C9: changing MenuItem.price leaves every OrderItem row of that menu     *)
(* item as it was, unit_price and price included.                           *)
C9_OrderItemPriceFrozen ==
    [][call'[1] = "MenuItemSetPrice" =>
         {oi \in orderitems' : oi.menuitem = call'[2]} =
         {oi \in orderitems : oi.menuitem = call'[2]}]_vars

C9_Witness ==
    /\ call[1] = "MenuItemSetPrice"
    /\ \E oi \in orderitems, mi \in menuitems :
          /\ oi.menuitem = call[2]
          /\ mi.id = call[2]
          /\ mi.price # oi.unit_price

(* C10: while a Cart row flagged deleted is stored for (user, menuitem),   *)
(* creating a Cart row for the same pair is rejected by the uniqueness     *)
(* constraint.                                                              *)
C10_DeletedRowKeepsSlot ==
    [][(/\ call'[1] = "CartCreate"
        /\ \E r \in carts : /\ r.user = call'[2]
                            /\ r.menuitem = call'[3]
                            /\ r.deleted) =>
         /\ raised' = "IntegrityError"
         /\ carts' = carts]_vars

C10_Witness ==
    /\ call[1] = "CartCreate"
    /\ raised = "IntegrityError"
    /\ \E r \in carts :
          r.user = call[2] /\ r.menuitem = call[3] /\ r.deleted

====
